---- MODULE Spec2Model ----
(***************************************************************************)
(* wireguard-udp-proxy (src/src/main.rs): a UDP relay that forwards every  *)
(* datagram of a peer to one fixed target and every datagram of the target *)
(* to the peer whose handshake initiation carried the receiver index.      *)
(*                                                                         *)
(* main() runs main_single when thread_count == 1 and main_threaded        *)
(* otherwise.  Both loops are modelled: a worker is a program counter over *)
(* the statements of its loop body, the session table is the HashMap       *)
(* `receivers`, and in main_threaded the RwLock around it is explicit.     *)
(***************************************************************************)
EXTENDS Integers, Sequences, FiniteSets, TLC

VARIABLES
    thread_count,   \* main: the parsed num_threads argument
    server,         \* main thread: "running", or how the process ended
    clock,          \* the monotonic clock read by Instant::now()
    receivers,      \* the HashMap<u32, ExpiringSocket>, as its set of entries
    readers,        \* RwLock: the workers holding a read guard
    writer,         \* RwLock: the workers holding the write guard
    pc,             \* per worker: the statement it executes next
    src_addr,       \* per worker: source address returned by recv_from
    wire,           \* per worker: the datagram as it arrived at the socket
    buf,            \* per worker: &buf[..recv], the bytes it holds
    now,            \* per worker: `now` of the sweep in progress
    to_addr,        \* per worker: the destination it selected
    last,           \* history: what the last step did (a send_to call, a
                    \* datagram dropped by `continue`, a table lookup)
    lastInit,       \* history, per index: source of the last initiation
                    \* whose insert was applied
    lastLive        \* history, per index: expiry written by that insert,
                    \* until a sweep runs at a time at or past it

vars ==
    <<thread_count, server, clock, receivers, readers, writer, pc,
      src_addr, wire, buf, now, to_addr, last, lastInit, lastLive>>

-----------------------------------------------------------------------------
(* Bounds of the model and constants of the program.                       *)

\* number of clock ticks the model lets pass
MaxTicks == 2

\* const SESSION_VALID_TIME: Duration = Duration::from_secs(180)
SESSION_VALID_TIME == 180

\* let mut buf = [0u8; 2048]
BUF_SIZE == 2048

\* one tick of the model's clock: half a session lifetime, so that a sweep
\* can run before, exactly at and after an entry's expiry
TickStep ==
    SESSION_VALID_TIME \div 2

\* the worker threads the model can spawn, in spawn order
Workers ==
    {1, 2}

\* the values of the num_threads argument that the model starts from
ThreadCounts ==
    {0} \cup Workers

\* the configured target and two peers
target_addr ==
    "T"

Peers ==
    {"P1", "P2"}

Addrs ==
    {target_addr} \cup Peers

NoAddr ==
    "-"

\* the sender / receiver indices that occur in the peers' traffic
Indices ==
    {100, 258}

-----------------------------------------------------------------------------
(* Datagrams.  A datagram is its first bytes `hdr` followed by `tail` zero *)
(* bytes, so that a datagram longer than the receive buffer has a small    *)
(* representation.  Bytes are indexed from 0 as in the source.             *)

Min(a, b) ==
    IF a <= b THEN a ELSE b

DLen(d) ==
    Len(d.hdr) + d.tail

ByteAt(d, i) ==
    IF i < Len(d.hdr) THEN d.hdr[i + 1] ELSE 0

\* the first n bytes of d
Take(d, n) ==
    [hdr  |-> SubSeq(d.hdr, 1, Min(Len(d.hdr), n)),
     tail |-> IF n <= Len(d.hdr) THEN 0 ELSE Min(d.tail, n - Len(d.hdr))]

EmptyBuf ==
    [hdr |-> <<>>, tail |-> 0]

to_le_bytes(n) ==
    <<n % 256, (n \div 256) % 256, (n \div 65536) % 256,
      (n \div 16777216) % 256>>

\* mutant of from_le_bytes: the two low bytes are taken in network order
from_mixed_bytes(d, i) ==
    256 * ByteAt(d, i) + ByteAt(d, i + 1) + 65536 * ByteAt(d, i + 2)
        + 16777216 * ByteAt(d, i + 3)

\* u32::from_le_bytes(buf[i..i+4])
from_le_bytes(d, i) ==
    ByteAt(d, i) + 256 * ByteAt(d, i + 1) + 65536 * ByteAt(d, i + 2)
        + 16777216 * ByteAt(d, i + 3)

\* a datagram of `len` bytes whose header carries the type byte and two
\* little-endian u32 fields at offsets 4 and 8
Encode(type, f1, f2, len) ==
    LET full == <<type, 0, 0, 0>> \o to_le_bytes(f1) \o to_le_bytes(f2)
    IN  [hdr  |-> SubSeq(full, 1, Min(len, 12)),
         tail |-> IF len > 12 THEN len - 12 ELSE 0]

\* the messages of the peers' traffic, as encoded on the wire
Initiation(sender) ==
    Encode(1, sender, 0, 148)

Response(sender, rcv) ==
    Encode(2, sender, rcv, 92)

CookieReply(rcv) ==
    Encode(3, rcv, 0, 64)

\* a transport data message one byte longer than the receive buffer
BigData(rcv) ==
    Encode(4, rcv, 0, BUF_SIZE + 1)

\* the traffic the model receives, as (source, datagram) pairs: every message
\* type from the target and from a peer, the same sender index initiated by
\* two peers, two indices initiated by one peer (once in a datagram of the
\* minimum length), a response that is too short, an unknown type and a
\* datagram under 10 bytes
Traffic ==
    { <<"T", Response(999, 100)>>, <<"T", CookieReply(100)>>,
      <<"T", BigData(258)>>, <<"T", Initiation(100)>>,
      <<"T", Encode(2, 999, 100, 10)>>,
      <<"P1", Initiation(100)>>, <<"P1", Encode(1, 258, 0, 10)>>,
      <<"P1", Response(999, 100)>>, <<"P1", BigData(258)>>,
      <<"P1", Encode(5, 100, 258, 12)>>,
      <<"P2", Initiation(100)>>, <<"P2", CookieReply(100)>>,
      <<"P2", Encode(1, 100, 0, 9)>> }

-----------------------------------------------------------------------------
(* WgPacket                                                                *)

None ==
    [some |-> FALSE]

Some(v) ==
    [some |-> TRUE, v |-> v]

\* mutant of parse: a HandshakeResponse is not checked for its 12 bytes
parse_unchecked(b) ==
    LET recv == DLen(b) IN
    IF recv < 10 THEN None
    ELSE CASE ByteAt(b, 0) = 1 ->
                Some([tag |-> "HandShakeInitiation",
                      sender |-> from_le_bytes(b, 4)])
           [] ByteAt(b, 0) = 2 ->
                Some([tag |-> "HandShakeResponse",
                      sender |-> from_le_bytes(b, 4),
                      receiver |-> from_le_bytes(b, 8)])
           [] ByteAt(b, 0) = 3 ->
                Some([tag |-> "Cookie", receiver |-> from_le_bytes(b, 4)])
           [] ByteAt(b, 0) = 4 ->
                Some([tag |-> "Data", receiver |-> from_le_bytes(b, 4)])
           [] OTHER -> None

\* WgPacket::parse
parse(b) ==
    LET recv == DLen(b) IN
    IF recv < 10 THEN None
    ELSE CASE ByteAt(b, 0) = 1 ->
                Some([tag |-> "HandShakeInitiation",
                      sender |-> from_le_bytes(b, 4)])
           [] ByteAt(b, 0) = 2 ->
                IF recv < 12 THEN None
                ELSE Some([tag |-> "HandShakeResponse",
                           sender |-> from_le_bytes(b, 4),
                           receiver |-> from_le_bytes(b, 8)])
           [] ByteAt(b, 0) = 3 ->
                Some([tag |-> "Cookie", receiver |-> from_le_bytes(b, 4)])
           [] ByteAt(b, 0) = 4 ->
                Some([tag |-> "Data", receiver |-> from_le_bytes(b, 4)])
           [] OTHER -> None

\* the offsets of buf that parse indexes: buf[0] once recv >= 10, then the
\* slices buf[4..8] and, for a HandshakeResponse of 12 bytes or more,
\* buf[8..12]; an offset at or past buf.len() is a panic
parse_reads(b) ==
    LET recv == DLen(b) IN
    IF recv < 10 THEN {}
    ELSE {0} \cup
         CASE ByteAt(b, 0) \in {1, 3, 4} -> 4..7
           [] ByteAt(b, 0) = 2 -> IF recv < 12 THEN {} ELSE 4..11
           [] OTHER -> {}

receiver(p) ==
    IF p.tag = "HandShakeInitiation" THEN None ELSE Some(p.receiver)

-----------------------------------------------------------------------------
(* HashMap<u32, ExpiringSocket>, as the set of its (key, value) entries.   *)

HasKey(m, k) ==
    \E e \in m : e.key = k

\* mutant of get: the key is not compared
get_any(m, k) ==
    IF m # {} THEN Some(CHOOSE e \in m : TRUE) ELSE None

\* HashMap::get
get(m, k) ==
    IF HasKey(m, k) THEN Some(CHOOSE e \in m : e.key = k) ELSE None

\* mutant of insert: the other entries of the same address are removed
insert_one_per_socket(m, k, v) ==
    {e \in m : e.key # k /\ e.socket # v.socket}
        \cup {[key |-> k, socket |-> v.socket, expires |-> v.expires]}

\* mutant of insert: the entry of an equal key is kept (entry().or_insert)
insert_keep(m, k, v) ==
    IF HasKey(m, k) THEN m
    ELSE m \cup {[key |-> k, socket |-> v.socket, expires |-> v.expires]}

\* mutant of insert: the entry of an equal key is not removed
insert_dup(m, k, v) ==
    m \cup {[key |-> k, socket |-> v.socket, expires |-> v.expires]}

\* HashMap::insert: the entry of an equal key is replaced
insert(m, k, v) ==
    {e \in m : e.key # k}
        \cup {[key |-> k, socket |-> v.socket, expires |-> v.expires]}

\* mutant of retain: an entry is dropped half a validity period early
retain_early(m, t) ==
    {e \in m : e.expires > t + TickStep}

\* mutant of retain: the comparison is reversed
retain_reversed(m, t) ==
    {e \in m : e.expires < t}

\* mutant of retain: an entry that expires exactly now is kept
retain_ge(m, t) ==
    {e \in m : e.expires >= t}

\* receivers.retain(|_, expiring_socket| expiring_socket.expires > now)
retain(m, t) ==
    {e \in m : e.expires > t}

\* mutant of ExpiringSocket_new: the validity period is not added
ExpiringSocket_now(socket, t) ==
    [socket |-> socket, expires |-> t]

\* ExpiringSocket::new, called when the clock shows t
ExpiringSocket_new(socket, t) ==
    [socket |-> socket, expires |-> t + SESSION_VALID_TIME]

-----------------------------------------------------------------------------
(* What a step leaves in `last`.                                           *)

Quiet ==
    [kind |-> "none"]

\* udp_socket.send_to(buf, &to_addr) was called for the datagram of w
SendOf(w) ==
    [kind |-> "send", src |-> src_addr[w], to |-> to_addr[w], payload |-> buf[w]]

\* the loop went back to recv_from without a send_to for the datagram of w
DropOf(w) ==
    [kind |-> "drop", src |-> src_addr[w], payload |-> buf[w]]

\* receivers.get found an entry for the datagram of w
HitOf(w, e) ==
    [kind |-> "lookup", src |-> src_addr[w], payload |-> buf[w], entry |-> e]

Running ==
    server = "running"

Init ==
    /\ thread_count \in ThreadCounts
    /\ server = "running"
    /\ clock = 0
    /\ receivers = {}
    /\ readers = {}
    /\ writer = {}
    /\ pc = [w \in Workers |-> IF w <= thread_count THEN "recv_from" ELSE "off"]
    /\ src_addr = [w \in Workers |-> NoAddr]
    /\ wire = [w \in Workers |-> EmptyBuf]
    /\ buf = [w \in Workers |-> EmptyBuf]
    /\ now = [w \in Workers |-> 0]
    /\ to_addr = [w \in Workers |-> NoAddr]
    /\ last = Quiet
    /\ lastInit = [i \in Indices |-> NoAddr]
    /\ lastLive = [i \in Indices |-> None]

\* time passes
Tick ==
    /\ Running
    /\ clock < MaxTicks * TickStep
    /\ clock' = clock + TickStep
    /\ last' = Quiet
    /\ UNCHANGED <<thread_count, server, receivers, readers, writer, pc,
                   src_addr, wire, buf, now, to_addr, lastInit, lastLive>>

-----------------------------------------------------------------------------
(* The loop body, one operator per statement that touches the socket, the  *)
(* clock, the lock or the table.  main_single and main_threaded have the   *)
(* same body up to the lock, so the operators serve both; they leave       *)
(* `server` to the caller.                                                 *)

\* the worker goes back to recv_from; what it held is dead
Continue(w) ==
    /\ pc' = [pc EXCEPT ![w] = "recv_from"]
    /\ src_addr' = [src_addr EXCEPT ![w] = NoAddr]
    /\ wire' = [wire EXCEPT ![w] = EmptyBuf]
    /\ buf' = [buf EXCEPT ![w] = EmptyBuf]
    /\ now' = [now EXCEPT ![w] = 0]
    /\ to_addr' = [to_addr EXCEPT ![w] = NoAddr]

\* the worker ends (an Err returned by `?`, or a panic)
Stop(w, how) ==
    /\ pc' = [pc EXCEPT ![w] = how]
    /\ src_addr' = [src_addr EXCEPT ![w] = NoAddr]
    /\ wire' = [wire EXCEPT ![w] = EmptyBuf]
    /\ buf' = [buf EXCEPT ![w] = EmptyBuf]
    /\ now' = [now EXCEPT ![w] = 0]
    /\ to_addr' = [to_addr EXCEPT ![w] = NoAddr]

\* let (recv, src_addr) = udp_socket.recv_from(&mut buf)?; let buf = &buf[..recv];
recv_from(w) ==
    /\ Running
    /\ pc[w] = "recv_from"
    /\ \E m \in Traffic :
          /\ src_addr' = [src_addr EXCEPT ![w] = m[1]]
          /\ wire' = [wire EXCEPT ![w] = m[2]]
          /\ buf' = [buf EXCEPT ![w] = Take(m[2], Min(DLen(m[2]), BUF_SIZE))]
    /\ pc' = [pc EXCEPT ![w] = "parse"]
    /\ last' = Quiet
    /\ UNCHANGED <<thread_count, clock, receivers, readers, writer, now,
                   to_addr, lastInit, lastLive>>

\* recv_from returns Err and `?` returns it from the loop
recv_from_err(w) ==
    /\ Running
    /\ pc[w] = "recv_from"
    /\ Stop(w, "err")
    /\ last' = Quiet
    /\ UNCHANGED <<thread_count, clock, receivers, readers, writer,
                   lastInit, lastLive>>

\* mutant of branch: the HandShakeResponse arm of the peers' match is missing
branch_no_response_arm(src, packet) ==
    IF ~packet.some THEN "continue"
    ELSE IF src = target_addr
    THEN IF receiver(packet.v).some THEN "lookup" ELSE "continue"
    ELSE CASE packet.v.tag = "HandShakeInitiation" -> "upsert"
           [] OTHER -> "target"

\* mutant of branch: every message with a receiver index is looked up,
\* whatever its source
branch_lookup_all(src, packet) ==
    IF ~packet.some THEN "continue"
    ELSE IF receiver(packet.v).some
    THEN IF src # target_addr /\ packet.v.tag = "HandShakeResponse"
         THEN "continue" ELSE "lookup"
    ELSE IF src = target_addr THEN "continue" ELSE "upsert"

\* mutant of branch: an initiation is stored whoever sent it
branch_target_initiates(src, packet) ==
    IF ~packet.some THEN "continue"
    ELSE IF packet.v.tag = "HandShakeInitiation" THEN "upsert"
    ELSE IF src = target_addr THEN "lookup"
    ELSE IF packet.v.tag = "HandShakeResponse" THEN "continue"
    ELSE "target"

\* the branch the loop body takes for a datagram from src: `packet` is the
\* Option that WgPacket::parse returned
branch(src, packet) ==
    IF ~packet.some THEN "continue"                 \* ignore invalid packets
    ELSE IF src = target_addr
    THEN IF receiver(packet.v).some THEN "lookup"
         ELSE "continue"                            \* target isn't allowed to initiate
    ELSE CASE packet.v.tag = "HandShakeInitiation" -> "upsert"
           [] packet.v.tag = "HandShakeResponse" -> "continue"
           [] OTHER -> "target"                     \* otherwise it's always the target

\* WgPacket::parse and the branch, up to the first statement that touches
\* the table or its lock; `locked` tells main_threaded from main_single
route(w, locked) ==
    /\ Running
    /\ pc[w] = "parse"
    /\ LET to == branch(src_addr[w], parse(buf[w])) IN
       CASE to = "continue" ->
              /\ Continue(w)
              /\ last' = DropOf(w)
         [] to = "lookup" ->
              /\ pc' = [pc EXCEPT ![w] = IF locked THEN "read" ELSE "get"]
              /\ last' = Quiet
              /\ UNCHANGED <<src_addr, wire, buf, now, to_addr>>
         [] to = "upsert" ->
              \* let now = Instant::now();
              /\ now' = [now EXCEPT ![w] = clock]
              /\ pc' = [pc EXCEPT ![w] = IF locked THEN "write" ELSE "retain"]
              /\ last' = Quiet
              /\ UNCHANGED <<src_addr, wire, buf, to_addr>>
         [] to = "target" ->
              /\ to_addr' = [to_addr EXCEPT ![w] = target_addr]
              /\ pc' = [pc EXCEPT ![w] = "send_to"]
              /\ last' = Quiet
              /\ UNCHANGED <<src_addr, wire, buf, now>>
    /\ UNCHANGED <<thread_count, clock, receivers, readers, writer,
                   lastInit, lastLive>>

\* mutant of read_lock: the read guard is granted while the write guard is out
read_lock_unguarded(w) ==
    /\ Running
    /\ pc[w] = "read"
    /\ readers' = readers \cup {w}
    /\ pc' = [pc EXCEPT ![w] = "get"]
    /\ last' = Quiet
    /\ UNCHANGED <<thread_count, clock, receivers, writer, src_addr, wire,
                   buf, now, to_addr, lastInit, lastLive>>

\* receivers.read().unwrap(): shared access, granted while no write guard is out
read_lock(w) ==
    /\ Running
    /\ pc[w] = "read"
    /\ writer = {}
    /\ readers' = readers \cup {w}
    /\ pc' = [pc EXCEPT ![w] = "get"]
    /\ last' = Quiet
    /\ UNCHANGED <<thread_count, clock, receivers, writer, src_addr, wire,
                   buf, now, to_addr, lastInit, lastLive>>

\* mutant of lookup: the read guard lives until the end of the loop body
lookup_guarded(w) ==
    /\ Running
    /\ pc[w] = "get"
    /\ LET found == get(receivers, receiver(parse(buf[w]).v).v) IN
       IF found.some
       THEN /\ to_addr' = [to_addr EXCEPT ![w] = found.v.socket]
            /\ pc' = [pc EXCEPT ![w] = "send_to"]
            /\ last' = HitOf(w, found.v)
            /\ readers' = readers
            /\ UNCHANGED <<src_addr, wire, buf, now>>
       ELSE /\ Continue(w)
            /\ last' = DropOf(w)
            /\ readers' = readers \ {w}
    /\ UNCHANGED <<thread_count, clock, receivers, writer, lastInit, lastLive>>

\* mutant of lookup: an entry whose expiry has passed counts as absent
lookup_fresh(w) ==
    /\ Running
    /\ pc[w] = "get"
    /\ LET found == get(receivers, receiver(parse(buf[w]).v).v) IN
       IF found.some /\ found.v.expires > clock
       THEN /\ to_addr' = [to_addr EXCEPT ![w] = found.v.socket]
            /\ pc' = [pc EXCEPT ![w] = "send_to"]
            /\ last' = HitOf(w, found.v)
            /\ UNCHANGED <<src_addr, wire, buf, now>>
       ELSE /\ Continue(w)
            /\ last' = DropOf(w)
    /\ readers' = readers \ {w}
    /\ UNCHANGED <<thread_count, clock, receivers, writer, lastInit, lastLive>>

\* packet.receiver().and_then(|receiver| receivers.get(receiver)) and the
\* match on it; the read guard, if any, is dropped
lookup(w) ==
    /\ Running
    /\ pc[w] = "get"
    /\ LET found == get(receivers, receiver(parse(buf[w]).v).v) IN
       IF found.some
       THEN /\ to_addr' = [to_addr EXCEPT ![w] = found.v.socket]
            /\ pc' = [pc EXCEPT ![w] = "send_to"]
            /\ last' = HitOf(w, found.v)
            /\ UNCHANGED <<src_addr, wire, buf, now>>
       ELSE /\ Continue(w)
            /\ last' = DropOf(w)
    /\ readers' = readers \ {w}
    /\ UNCHANGED <<thread_count, clock, receivers, writer, lastInit, lastLive>>

\* receivers.write().unwrap(): exclusive access
write_lock(w) ==
    /\ Running
    /\ pc[w] = "write"
    /\ writer = {}
    /\ readers = {}
    /\ writer' = {w}
    /\ pc' = [pc EXCEPT ![w] = "retain"]
    /\ last' = Quiet
    /\ UNCHANGED <<thread_count, clock, receivers, readers, src_addr, wire,
                   buf, now, to_addr, lastInit, lastLive>>

\* receivers.retain(|_, expiring_socket| expiring_socket.expires > now);
sweep(w) ==
    /\ Running
    /\ pc[w] = "retain"
    /\ receivers' = retain(receivers, now[w])
    /\ lastLive' = [i \in Indices |->
                      IF lastLive[i].some /\ lastLive[i].v <= now[w]
                      THEN None ELSE lastLive[i]]
    /\ pc' = [pc EXCEPT ![w] = "insert"]
    /\ last' = Quiet
    /\ UNCHANGED <<thread_count, clock, readers, writer, src_addr, wire, buf,
                   now, to_addr, lastInit>>

\* receivers.insert(sender, ExpiringSocket::new(src_addr)); the write guard,
\* if any, is dropped at the end of the match arm; the destination is the target
upsert(w) ==
    /\ Running
    /\ pc[w] = "insert"
    /\ LET sender == parse(buf[w]).v.sender
           entry  == ExpiringSocket_new(src_addr[w], clock)
       IN  /\ receivers' = insert(receivers, sender, entry)
           /\ lastInit' = [lastInit EXCEPT ![sender] = src_addr[w]]
           /\ lastLive' = [lastLive EXCEPT ![sender] = Some(entry.expires)]
    /\ writer' = writer \ {w}
    /\ to_addr' = [to_addr EXCEPT ![w] = target_addr]
    /\ pc' = [pc EXCEPT ![w] = "send_to"]
    /\ last' = Quiet
    /\ UNCHANGED <<thread_count, clock, readers, src_addr, wire, buf, now>>

\* mutant of send_to: the worker stays at send_to and sends again
send_to_again(w) ==
    /\ Running
    /\ pc[w] = "send_to"
    /\ last' = SendOf(w)
    /\ UNCHANGED <<thread_count, clock, receivers, readers, writer, pc,
                   src_addr, wire, buf, now, to_addr, lastInit, lastLive>>

\* let sent = udp_socket.send_to(buf, &to_addr)?; assert_eq!(sent, recv);
send_to(w) ==
    /\ Running
    /\ pc[w] = "send_to"
    /\ last' = SendOf(w)
    /\ Continue(w)
    /\ UNCHANGED <<thread_count, clock, receivers, readers, writer,
                   lastInit, lastLive>>

\* send_to returns Err and `?` returns it from the loop
send_to_err(w) ==
    /\ Running
    /\ pc[w] = "send_to"
    /\ last' = SendOf(w)
    /\ Stop(w, "err")
    /\ UNCHANGED <<thread_count, clock, receivers, readers, writer,
                   lastInit, lastLive>>

\* send_to reports fewer bytes than it was given: assert_eq! panics
send_to_short(w) ==
    /\ Running
    /\ pc[w] = "send_to"
    /\ last' = SendOf(w)
    /\ Stop(w, "panic")
    /\ UNCHANGED <<thread_count, clock, receivers, readers, writer,
                   lastInit, lastLive>>

-----------------------------------------------------------------------------
(* main_single: the loop runs on the main thread, so an Err or a panic     *)
(* ends the process.                                                       *)

single_recv_from ==
    thread_count = 1 /\ recv_from(1) /\ UNCHANGED server

single_recv_from_err ==
    thread_count = 1 /\ recv_from_err(1) /\ server' = "err"

single_route ==
    thread_count = 1 /\ route(1, FALSE) /\ UNCHANGED server

single_lookup ==
    thread_count = 1 /\ lookup(1) /\ UNCHANGED server

single_sweep ==
    thread_count = 1 /\ sweep(1) /\ UNCHANGED server

single_upsert ==
    thread_count = 1 /\ upsert(1) /\ UNCHANGED server

single_send_to ==
    thread_count = 1 /\ send_to(1) /\ UNCHANGED server

single_send_to_err ==
    thread_count = 1 /\ send_to_err(1) /\ server' = "err"

single_send_to_short ==
    thread_count = 1 /\ send_to_short(1) /\ server' = "panic"

main_single ==
    \/ single_recv_from
    \/ single_recv_from_err
    \/ single_route
    \/ single_lookup
    \/ single_sweep
    \/ single_upsert
    \/ single_send_to
    \/ single_send_to_err
    \/ single_send_to_short

-----------------------------------------------------------------------------
(* main_threaded: thread_count workers over the shared RwLock, and the     *)
(* main thread joining them in spawn order.                                *)

Spawned(w) ==
    thread_count # 1 /\ w <= thread_count

threaded_recv_from(w) ==
    Spawned(w) /\ recv_from(w) /\ UNCHANGED server

threaded_recv_from_err(w) ==
    Spawned(w) /\ recv_from_err(w) /\ UNCHANGED server

threaded_route(w) ==
    Spawned(w) /\ route(w, TRUE) /\ UNCHANGED server

threaded_read_lock(w) ==
    Spawned(w) /\ read_lock(w) /\ UNCHANGED server

threaded_lookup(w) ==
    Spawned(w) /\ lookup(w) /\ UNCHANGED server

threaded_write_lock(w) ==
    Spawned(w) /\ write_lock(w) /\ UNCHANGED server

threaded_sweep(w) ==
    Spawned(w) /\ sweep(w) /\ UNCHANGED server

threaded_upsert(w) ==
    Spawned(w) /\ upsert(w) /\ UNCHANGED server

threaded_send_to(w) ==
    Spawned(w) /\ send_to(w) /\ UNCHANGED server

threaded_send_to_err(w) ==
    Spawned(w) /\ send_to_err(w) /\ UNCHANGED server

threaded_send_to_short(w) ==
    Spawned(w) /\ send_to_short(w) /\ UNCHANGED server

\* a join loop that walks the threads from the last spawned to the first
join_reversed(how) ==
    /\ Running
    /\ thread_count # 1
    /\ \E j \in Workers :
          /\ j <= thread_count
          /\ \A k \in Workers : (k > j /\ k <= thread_count) => pc[k] = "ok"
          /\ pc[j] = how
    /\ server' = how
    /\ last' = Quiet
    /\ UNCHANGED <<thread_count, clock, receivers, readers, writer, pc,
                   src_addr, wire, buf, now, to_addr, lastInit, lastLive>>

\* for thread in threads { thread.join().unwrap()?; }
\* join blocks until the thread has ended; the loop reaches thread j only
\* after every earlier thread returned Ok, which no worker ever does
join(how) ==
    /\ Running
    /\ thread_count # 1
    /\ \E j \in Workers :
          /\ j <= thread_count
          /\ \A k \in Workers : k < j => pc[k] = "ok"
          /\ pc[j] = how
    /\ server' = how
    /\ last' = Quiet
    /\ UNCHANGED <<thread_count, clock, receivers, readers, writer, pc,
                   src_addr, wire, buf, now, to_addr, lastInit, lastLive>>

\* a worker returned Err: `?` returns it from main_threaded
join_err ==
    join("err")

\* a worker panicked: join() is Err and unwrap() panics the main thread
join_panic ==
    join("panic")

\* the loop over the threads is over: Ok(())
return_ok ==
    /\ Running
    /\ thread_count # 1
    /\ \A k \in Workers : k <= thread_count => pc[k] = "ok"
    /\ server' = "ok"
    /\ last' = Quiet
    /\ UNCHANGED <<thread_count, clock, receivers, readers, writer, pc,
                   src_addr, wire, buf, now, to_addr, lastInit, lastLive>>

main_threaded ==
    \/ \E w \in Workers : threaded_recv_from(w)
    \/ \E w \in Workers : threaded_recv_from_err(w)
    \/ \E w \in Workers : threaded_route(w)
    \/ \E w \in Workers : threaded_read_lock(w)
    \/ \E w \in Workers : threaded_lookup(w)
    \/ \E w \in Workers : threaded_write_lock(w)
    \/ \E w \in Workers : threaded_sweep(w)
    \/ \E w \in Workers : threaded_upsert(w)
    \/ \E w \in Workers : threaded_send_to(w)
    \/ \E w \in Workers : threaded_send_to_err(w)
    \/ \E w \in Workers : threaded_send_to_short(w)
    \/ join_err
    \/ join_panic
    \/ return_ok

Next ==
    \/ Tick
    \/ main_single
    \/ main_threaded

Spec ==
    Init /\ [][Next]_vars

\* Scheduling.  A thread that is not blocked in a system call keeps running:
\* the steps between recv_from and send_to are weakly fair, and so is the
\* return of send_to (a UDP send completes or fails).  join() returns once
\* the joined thread has ended.  Nothing makes a datagram arrive, so
\* recv_from carries no fairness, and neither does the passing of time.
worker_runs(w) ==
    \/ single_route \/ single_lookup \/ single_sweep \/ single_upsert
    \/ single_send_to \/ single_send_to_err \/ single_send_to_short
    \/ threaded_route(w) \/ threaded_lookup(w)
    \/ threaded_sweep(w) \/ threaded_upsert(w)
    \/ threaded_send_to(w) \/ threaded_send_to_err(w)
    \/ threaded_send_to_short(w)

main_runs ==
    join_err \/ join_panic \/ return_ok

JoinSpec ==
    Spec /\ WF_vars(main_runs)

\* a worker that waits in read() or write() is woken when the lock is
\* released: if the lock is free again and again, the worker takes it
worker_locks(w) ==
    threaded_read_lock(w) \/ threaded_write_lock(w)

FairSpec ==
    /\ Spec
    /\ \A w \in Workers : WF_vars(worker_runs(w))
    /\ \A w \in Workers : SF_vars(worker_locks(w))

-----------------------------------------------------------------------------
(* WgPacket::parse on its own, as tests::test_wg_parse exercises it: a     *)
(* packet is laid out byte by byte from a type, two u32 values and a       *)
(* length, and parse is applied to it.                                     *)

MaxLen == 14

Lens ==
    0..MaxLen

Types ==
    {0, 1, 2, 3, 4, 5}

\* u32 values below 2^31, the largest integer of the model checker: 0, the
\* largest, the receiver of the unit test, and 0x01020304, whose four bytes
\* differ
U32s ==
    {0, 2147483647, 350987235, 16909060}

\* the value of the bytes that carry no field
Fillers ==
    {0, 255}

\* the packet of the unit test: the type byte, bytes 1..3, the first u32 at
\* [4..8), the second at [8..12), and what follows, cut or extended to len
Packet(type, fill, first, second, len) ==
    LET full == <<type, fill, fill, fill>> \o to_le_bytes(first)
                    \o to_le_bytes(second) \o <<fill, fill>>
    IN  [hdr  |-> SubSeq(full, 1, Min(len, 14)),
         tail |-> IF len > 14 THEN len - 14 ELSE 0]

TestInit ==
    /\ thread_count = 1
    /\ server = "running"
    /\ clock = 0
    /\ receivers = {}
    /\ readers = {}
    /\ writer = {}
    /\ pc = [w \in Workers |-> IF w = 1 THEN "packet" ELSE "off"]
    /\ src_addr = [w \in Workers |-> NoAddr]
    /\ wire = [w \in Workers |-> EmptyBuf]
    /\ buf = [w \in Workers |-> EmptyBuf]
    /\ now = [w \in Workers |-> 0]
    /\ to_addr = [w \in Workers |-> NoAddr]
    /\ last = Quiet
    /\ lastInit = [i \in Indices |-> NoAddr]
    /\ lastLive = [i \in Indices |-> None]

\* let packet = [type, .., first_bytes[0], .., second_bytes[0], ..];
test_packet ==
    /\ pc[1] = "packet"
    /\ \E type \in Types, fill \in Fillers, first \in U32s, second \in U32s,
          len \in Lens :
          /\ wire' = [wire EXCEPT ![1] = Packet(type, fill, first, second, len)]
          /\ last' = [kind |-> "packet", type |-> type, first |-> first,
                      second |-> second, len |-> len]
    /\ pc' = [pc EXCEPT ![1] = "parse"]
    /\ UNCHANGED <<thread_count, server, clock, receivers, readers, writer,
                   src_addr, buf, now, to_addr, lastInit, lastLive>>

\* WgPacket::parse(&packet)
test_parse ==
    /\ pc[1] = "parse"
    /\ last' = [kind |-> "parse", type |-> last.type, first |-> last.first,
                second |-> last.second, len |-> last.len,
                packet |-> parse(wire[1]), reads |-> parse_reads(wire[1])]
    /\ pc' = [pc EXCEPT ![1] = "off"]
    /\ UNCHANGED <<thread_count, server, clock, receivers, readers, writer,
                   src_addr, wire, buf, now, to_addr, lastInit, lastLive>>

test_wg_parse ==
    test_packet \/ test_parse

TestSpec ==
    TestInit /\ [][test_wg_parse]_vars

-----------------------------------------------------------------------------------------------------------------------------------------------------
(* Properties.                                                             *)

TypeOK ==
    /\ thread_count \in ThreadCounts
    /\ server \in {"running", "ok", "err", "panic"}
    /\ clock \in 0..(MaxTicks * TickStep)
    /\ readers \subseteq Workers
    /\ writer \subseteq Workers
    /\ \A e \in receivers : e.key \in Indices /\ e.socket \in Addrs

\* worker w takes a step
Moved(w) ==
    pc'[w] # pc[w]

\* the entries of the table under key k
EntriesOf(k) ==
    {e \in receivers : e.key = k}

\* the message type of a parseable datagram
TagOf(d) ==
    parse(d).v.tag

IsInitiation(d) ==
    parse(d).some /\ TagOf(d) = "HandShakeInitiation"

IsResponse(d) ==
    parse(d).some /\ TagOf(d) = "HandShakeResponse"

IsCookieOrData(d) ==
    parse(d).some /\ TagOf(d) \in {"Cookie", "Data"}

\* the receiver index of a response, cookie or data datagram
ReceiverOf(d) ==
    parse(d).v.receiver

\* the sender index of an initiation
SenderOf(d) ==
    parse(d).v.sender

FromTarget(w) ==
    src_addr[w] = target_addr

\* the send_to call that forwards the datagram of w to address a
Forward(w, a) ==
    [kind |-> "send", src |-> src_addr[w], to |-> a, payload |-> buf[w]]

-----------------------------------------------------------------------------
\* C1: a datagram from the target that is an initiation (no receiver index),
\* or whose receiver index has no entry when the table is looked up, is
\* dropped without a send; otherwise it is sent to the address of the entry
\* found at lookup time, and to no other address.  Both loops.
C1_Step(w) ==
    /\ (pc[w] = "parse" /\ Moved(w) /\ FromTarget(w) /\ IsInitiation(buf[w]))
          => pc'[w] = "recv_from" /\ last' = DropOf(w)
    /\ (pc[w] = "get" /\ Moved(w) /\ FromTarget(w))
          => LET es == EntriesOf(ReceiverOf(buf[w])) IN
             IF es = {}
             THEN pc'[w] = "recv_from" /\ last' = DropOf(w)
             ELSE /\ pc'[w] = "send_to"
                  /\ \E e \in es : to_addr'[w] = e.socket
                  /\ last'.kind = "lookup"
    /\ (pc'[w] = "send_to" /\ Moved(w) /\ src_addr'[w] = target_addr)
          => pc[w] = "get"
    /\ (pc[w] = "send_to" /\ Moved(w) /\ FromTarget(w))
          => last' = Forward(w, to_addr[w])

C1_TargetRouted ==
    [][\A w \in Workers : C1_Step(w)]_vars

\* a response of the target has just been forwarded to peer P2, whose
\* initiation carried its receiver index
C1_Witness ==
    /\ last.kind = "send"
    /\ last.src = target_addr
    /\ IsResponse(last.payload)
    /\ last.to = "P2"
    /\ lastInit[ReceiverOf(last.payload)] = "P2"

-----------------------------------------------------------------------------
\* C2: an initiation from a source other than the target is never dropped:
\* its worker sweeps, then writes the entry sender -> source whatever the
\* table held, selects the target, and calls send_to for the target.
FromPeer(w) ==
    src_addr[w] \in Peers

C2_Step(w) ==
    /\ (pc[w] = "parse" /\ Moved(w) /\ FromPeer(w) /\ IsInitiation(buf[w]))
          => pc'[w] \in {"write", "retain"} /\ last'.kind # "drop"
    /\ pc[w] \in {"write", "retain", "insert"}
          => FromPeer(w) /\ IsInitiation(buf[w])
    /\ (pc[w] = "write" /\ Moved(w)) => pc'[w] = "retain"
    /\ (pc[w] = "retain" /\ Moved(w)) => pc'[w] = "insert"
    /\ (pc[w] = "insert" /\ Moved(w))
          => /\ \E e \in receivers' : e.key = SenderOf(buf[w])
             /\ \A e \in receivers' :
                   e.key = SenderOf(buf[w]) => e.socket = src_addr[w]
             /\ pc'[w] = "send_to"
             /\ to_addr'[w] = target_addr
             /\ src_addr'[w] = src_addr[w] /\ buf'[w] = buf[w]
    /\ (pc[w] = "send_to" /\ Moved(w) /\ FromPeer(w) /\ IsInitiation(buf[w]))
          => last' = Forward(w, target_addr)

C2_InitiationUpserted ==
    [][\A w \in Workers : C2_Step(w)]_vars

\* the initiation of P2 for index 100 has just been sent to the target and
\* the table maps 100 to P2, after P1 had initiated both indices
C2_Witness ==
    /\ last.kind = "send"
    /\ last.src = "P2"
    /\ IsInitiation(last.payload)
    /\ last.to = target_addr
    /\ \E e \in receivers : e.key = SenderOf(last.payload) /\ e.socket = "P2"
    /\ \E e \in receivers : e.socket = "P1"

-----------------------------------------------------------------------------
\* C3: once an initiation with sender index s from peer P has been inserted,
\* and until another initiation with index s is inserted or a sweep runs at
\* a time at or past the expiry it wrote, every lookup of s made for a
\* datagram of the target selects P, and the datagram is sent to P.
C3_Step(w) ==
    /\ (pc[w] = "get" /\ Moved(w) /\ FromTarget(w)
          /\ lastLive[ReceiverOf(buf[w])].some)
          => /\ pc'[w] = "send_to"
             /\ to_addr'[w] = lastInit[ReceiverOf(buf[w])]
             /\ src_addr'[w] = src_addr[w] /\ buf'[w] = buf[w]
    /\ (pc[w] = "send_to" /\ Moved(w) /\ FromTarget(w))
          => last'.kind = "send" /\ last'.to = to_addr[w]

C3_ReplyFollowsInitiation ==
    [][\A w \in Workers : C3_Step(w)]_vars

\* with two workers, a message of the target for index 100 has just been
\* sent to P1 while an initiation for the other index had been inserted too
C3_Witness ==
    /\ thread_count = 2
    /\ last.kind = "send"
    /\ last.src = target_addr
    /\ ReceiverOf(last.payload) = 100
    /\ last.to = "P1"
    /\ lastInit[100] = "P1"
    /\ lastInit[258] # NoAddr

-----------------------------------------------------------------------------
\* C4: a response from a source other than the target is dropped when it is
\* routed: no send_to call is made for it and the table is unchanged,
\* whatever the table holds.
C4_Step(w) ==
    /\ (pc[w] = "parse" /\ Moved(w) /\ ~FromTarget(w) /\ IsResponse(buf[w]))
          => /\ pc'[w] = "recv_from"
             /\ last' = DropOf(w)
             /\ receivers' = receivers
    /\ (pc[w] # "parse" /\ pc'[w] # "parse" /\ src_addr'[w] \in Peers)
          => ~IsResponse(buf'[w])
    /\ last'.kind = "send"
          => ~(last'.src # target_addr /\ IsResponse(last'.payload))

C4_PeerResponseDropped ==
    [][\A w \in Workers : C4_Step(w)]_vars

\* a response of P1 has just been dropped although its receiver index and
\* its sender index's neighbour both have entries
C4_Witness ==
    /\ last.kind = "drop"
    /\ last.src = "P1"
    /\ IsResponse(last.payload)
    /\ EntriesOf(ReceiverOf(last.payload)) # {}
    /\ Cardinality(receivers) = 2

-----------------------------------------------------------------------------
\* C5: a cookie or data datagram from a source other than the target is
\* routed to the target without a table lookup, and send_to is called for
\* the target, which is no address stored in the table.
C5_Step(w) ==
    /\ (pc[w] = "parse" /\ Moved(w) /\ ~FromTarget(w) /\ IsCookieOrData(buf[w]))
          => /\ pc'[w] = "send_to"
             /\ to_addr'[w] = target_addr
             /\ src_addr'[w] = src_addr[w] /\ buf'[w] = buf[w]
             /\ receivers' = receivers
    /\ (pc[w] = "send_to" /\ Moved(w) /\ ~FromTarget(w) /\ IsCookieOrData(buf[w]))
          => /\ last' = Forward(w, target_addr)
             /\ \A e \in receivers : e.socket # last'.to

C5_PeerDataToTarget ==
    [][\A w \in Workers : C5_Step(w)]_vars

\* a cookie of P2, which never initiated, has just been sent to the target
\* while its receiver index has an entry that points to P1
C5_Witness ==
    /\ last.kind = "send"
    /\ last.src = "P2"
    /\ IsCookieOrData(last.payload)
    /\ last.to = target_addr
    /\ \A i \in Indices : lastInit[i] # "P2"
    /\ \E e \in EntriesOf(ReceiverOf(last.payload)) : e.socket = "P1"

-----------------------------------------------------------------------------
\* C6: a received datagram of at most 2048 bytes is held unchanged while it
\* is processed; a worker that selected a destination makes one send_to
\* call, to that destination and with exactly the bytes received, and then
\* receives again (or ends on the call's failure); a send_to call is made
\* only by a worker that selected a destination, and a dropped datagram
\* takes its worker back to recv_from without a call.
Holding(w) ==
    pc[w] \in {"parse", "read", "get", "write", "retain", "insert", "send_to"}

C6_Step(w) ==
    /\ (pc[w] = "recv_from" /\ pc'[w] = "parse" /\ DLen(wire'[w]) <= BUF_SIZE)
          => buf'[w] = wire'[w]
    /\ (Holding(w) /\ Holding(w)')
          => buf'[w] = buf[w] /\ wire'[w] = wire[w] /\ src_addr'[w] = src_addr[w]
    /\ (pc[w] = "send_to" /\ Moved(w))
          => /\ last' = Forward(w, to_addr[w])
             /\ to_addr[w] \in Addrs
             /\ DLen(wire[w]) <= BUF_SIZE => last'.payload = wire[w]
             /\ pc'[w] \in {"recv_from", "err", "panic"}
    /\ (Holding(w) /\ pc[w] # "send_to" /\ Moved(w) /\ ~Holding(w)')
          => pc'[w] = "recv_from" /\ last' = DropOf(w)

C6_ForwardedOnce ==
    [][/\ \A w \in Workers : C6_Step(w)
       /\ last'.kind = "send"
             => \E w \in Workers : pc[w] = "send_to" /\ ~Holding(w)']_vars

\* the 92-byte response of the target has just been sent to P1 as received
C6_Witness ==
    /\ last.kind = "send"
    /\ last.src = target_addr
    /\ last.payload = Response(999, 100)
    /\ DLen(last.payload) = 92
    /\ last.to = "P1"

-----------------------------------------------------------------------------
\* C7: the table holds at most one entry per index, and the address of the
\* entry of an index is the source of the initiation with that index whose
\* insert was applied last.
C7_LastWriterWins ==
    /\ \A e \in receivers : e.key \in Indices
    /\ \A i \in Indices :
          /\ Cardinality(EntriesOf(i)) <= 1
          /\ \A e \in EntriesOf(i) : e.socket = lastInit[i]

\* with two workers: worker 1 has inserted index 100 for P1 and has not yet
\* sent, and the entry already shows P2, whose insert was applied after it
C7_Witness ==
    /\ thread_count = 2
    /\ pc[1] = "send_to"
    /\ src_addr[1] = "P1"
    /\ IsInitiation(buf[1])
    /\ SenderOf(buf[1]) = 100
    /\ EntriesOf(100) # {}
    /\ \A e \in EntriesOf(100) : e.socket = "P2"

-----------------------------------------------------------------------------
\* C8: when the sweep of an initiation has run with time `now`, and again
\* when its insert completes, the table holds no entry, of any index, whose
\* expiry is at or before `now`.
C8_Step(w) ==
    (pc[w] \in {"retain", "insert"} /\ Moved(w))
        => \A e \in receivers' : e.expires > now[w]

C8_SweptAfterUpsert ==
    [][\A w \in Workers : C8_Step(w)]_vars

\* an initiation for index 100 has been inserted, no sweep is in progress,
\* and the entry once inserted for index 258 is gone: a sweep of an
\* initiation for index 100 removed it
C8_Witness ==
    /\ \E w \in Workers :
          /\ pc[w] = "send_to"
          /\ FromPeer(w)
          /\ IsInitiation(buf[w])
          /\ SenderOf(buf[w]) = 100
    /\ \A v \in Workers : pc[v] # "insert"
    /\ lastInit[258] # NoAddr
    /\ EntriesOf(258) = {}

-----------------------------------------------------------------------------
\* C9: a lookup selects the address of the entry under the receiver index
\* whether or not its expiry has passed, and leaves the table as it is; the
\* table changes only in the sweep or the insert of an initiation that came
\* from a source other than the target.
C9_Step(w) ==
    (pc[w] = "get" /\ Moved(w))
        => /\ receivers' = receivers
           /\ \A e \in EntriesOf(ReceiverOf(buf[w])) :
                 /\ pc'[w] = "send_to"
                 /\ to_addr'[w] = e.socket
                 /\ last' = HitOf(w, e)

C9_LazyEviction ==
    [][/\ \A w \in Workers : C9_Step(w)
       /\ receivers' # receivers
             => \E w \in Workers :
                   /\ pc[w] \in {"retain", "insert"}
                   /\ Moved(w)
                   /\ FromPeer(w)
                   /\ IsInitiation(buf[w])]_vars

\* the last step looked up an entry whose expiry had passed and selected
\* its address for a datagram of the target
C9_Witness ==
    /\ last.kind = "lookup"
    /\ last.src = target_addr
    /\ last.entry.expires <= clock
    /\ \E w \in Workers : pc[w] = "send_to" /\ to_addr[w] = last.entry.socket

-----------------------------------------------------------------------------
\* C10: in main_threaded, while a worker is between write() and the end of
\* its insert (before its sweep, or between its sweep and its insert), no
\* other worker is in a lookup, a sweep or an insert, and no step of another
\* worker changes the table or looks it up.
InWrite(w) ==
    pc[w] \in {"retain", "insert"}

InRead(w) ==
    pc[w] = "get"

C10_Exclusion ==
    thread_count # 1 =>
        \A w, v \in Workers :
            (w # v /\ InWrite(w)) => ~InWrite(v) /\ ~InRead(v)

C10_Atomic(w) ==
    (thread_count # 1 /\ InWrite(w) /\ ~Moved(w))
        => receivers' = receivers /\ last'.kind # "lookup"

C10_CriticalSection ==
    []C10_Exclusion /\ [][\A w \in Workers : C10_Atomic(w)]_vars

\* worker 1 has swept and not yet inserted, and worker 2 waits for the read
\* guard with a datagram of the target
C10_Witness ==
    /\ thread_count = 2
    /\ pc[1] = "insert"
    /\ pc[2] = "read"

\* two lookups overlap
C10_ReadersOverlap ==
    thread_count = 2 /\ pc[1] = "get" /\ pc[2] = "get"

-----------------------------------------------------------------------------
(* C11: in multi-worker mode a worker's transport failure ends the server  *)
(* only through the join loop, which waits for the workers in spawn order. *)

\* C11 as stated: in multi-worker mode, whenever any worker has terminated
\* with a transport I/O failure, the server eventually terminates with a
\* fatal error, whatever the other workers do.
C11_AnyFailureEndsServer ==
    (thread_count # 1 /\ \E w \in Workers : pc[w] = "err")
        ~> (server \in {"err", "panic"})

-----------------------------------------------------------------------------
(* C12: what the join loop waits for, and whose failure it returns.        *)

Failed ==
    {"err", "panic"}

Ended ==
    Failed \cup {"ok"}

Returns ==
    server = "running" /\ server' # "running"

\* the step by which w terminates with a failure
Fails(w) ==
    pc[w] \notin Failed /\ pc'[w] \in Failed

\* w has failed and every other spawned worker is still running, so w is
\* the worker that failed first in time
FailedFirst(w) ==
    /\ thread_count # 1
    /\ pc[w] \in Failed
    /\ \A v \in Workers \ {w} : v <= thread_count => pc[v] \notin Ended

\* the server does not return before every worker has terminated
C12_WaitsForAll ==
    [][(thread_count # 1 /\ Returns)
          => \A w \in Workers : w <= thread_count => pc[w] \in Ended]_vars

\* the failure returned is that of the worker that failed first in time
C12_FirstInTime ==
    \A w \in Workers :
        [](FailedFirst(w) => []((~Running) => server = pc[w]))

C12_ReturnedEarly ==
    /\ thread_count = 2
    /\ server = "err"
    /\ pc[2] = "send_to"

-----------------------------------------------------------------------------
(* C13: thread_count = 0 at startup.                                       *)

\* C13 as stated: a thread_count that is not a positive integer, 0 included,
\* is fatal at startup: the server never returns success, and while the
\* server runs at least one worker is in its receive loop or between two
\* receives.
C13_ZeroIsFatal ==
    /\ thread_count < 1 => server # "ok"
    /\ Running => \E w \in Workers : pc[w] \notin {"off", "ok"}

\* with thread_count = 0 no thread is spawned, the join loop is empty and
\* main_threaded has returned Ok(())
C13_ReturnedSuccess ==
    /\ thread_count = 0
    /\ server = "ok"
    /\ \A w \in Workers : pc[w] = "off"

-----------------------------------------------------------------------------
(* C14: when parse yields None.                                            *)

Parsed ==
    last.kind = "parse"

\* C14: parse yields None exactly when the datagram is shorter than 10
\* bytes, or its first byte is not 1, 2, 3 or 4, or its first byte is 2 and
\* it is 10 or 11 bytes long; for every length from 0 it indexes no byte at
\* or past the length of the datagram.
C14_UnparseableExactly ==
    Parsed =>
        LET b == wire[1] IN
        /\ (last.packet = None) <=>
               \/ DLen(b) < 10
               \/ b.hdr[1] \notin {1, 2, 3, 4}
               \/ b.hdr[1] = 2 /\ DLen(b) \in {10, 11}
        /\ \A i \in last.reads : i < DLen(b)

\* an 11-byte packet of type 2 has been parsed to None
C14_Witness ==
    /\ Parsed
    /\ DLen(wire[1]) = 11
    /\ wire[1].hdr[1] = 2
    /\ last.packet = None

-----------------------------------------------------------------------------
(* C15: round trip through the wire layout and parse.                      *)

\* the variant a message of the type stands for
Variant(type, first, second) ==
    CASE type = 1 -> [tag |-> "HandShakeInitiation", sender |-> first]
      [] type = 2 -> [tag |-> "HandShakeResponse", sender |-> first,
                      receiver |-> second]
      [] type = 3 -> [tag |-> "Cookie", receiver |-> first]
      [] type = 4 -> [tag |-> "Data", receiver |-> first]

\* the packet is long enough to be a message of its type
WellFormed ==
    /\ last.type \in {1, 2, 3, 4}
    /\ last.len >= (IF last.type = 2 THEN 12 ELSE 10)

\* C15: for each type 1..4 and all index values, laying out the type byte
\* at 0, the first index little-endian at [4..8) and, for type 2, the
\* receiver at [8..12), then parsing, yields the variant of that type with
\* the original values, whatever bytes 1..3 and the bytes past the fields
\* hold.
C15_RoundTrip ==
    (Parsed /\ WellFormed)
        => last.packet = Some(Variant(last.type, last.first, last.second))

\* a response of 0x01020304 to 350987235 with 255 in the bytes that carry
\* no field has been parsed back to its two indices
C15_Witness ==
    /\ Parsed
    /\ last.type = 2
    /\ last.first = 16909060
    /\ last.second = 350987235
    /\ DLen(wire[1]) = 14
    /\ wire[1].hdr[2] = 255
    /\ last.packet = Some([tag |-> "HandShakeResponse", sender |-> 16909060,
                           receiver |-> 350987235])

-----------------------------------------------------------------------------
(* C16: which steps change the table.                                      *)

\* the datagram w is processing is an initiation from a peer
PeerInitiation(w) ==
    FromPeer(w) /\ IsInitiation(buf[w])

\* C16: a step of a worker that is processing a datagram from the target,
\* a response, cookie or data datagram from a peer, or an unparseable
\* datagram leaves the table as it is, and so does every step that is not
\* a worker's processing step; a key leaves the table only in the sweep
\* of a peer's initiation.
C16_Step(w) ==
    /\ (Holding(w) /\ Moved(w) /\ ~PeerInitiation(w))
          => receivers' = receivers
    /\ (pc[w] = "recv_from" /\ Moved(w)) => receivers' = receivers

C16_OnlyInitiationsWrite ==
    [][/\ \A w \in Workers : C16_Step(w)
       /\ (\A w \in Workers : ~Moved(w)) => receivers' = receivers
       /\ \A e \in receivers :
             ~HasKey(receivers', e.key)
                => \E w \in Workers :
                      /\ pc[w] = "retain"
                      /\ Moved(w)
                      /\ PeerInitiation(w)
                      /\ e.expires <= now[w]]_vars

\* the target's initiation-shaped datagram has been dropped, and the
\* table still holds the entry a peer created
C16_Witness ==
    /\ last.kind = "drop"
    /\ last.src = target_addr
    /\ IsInitiation(last.payload)
    /\ receivers # {}

-----------------------------------------------------------------------------
(* C17: the expiry written by an initiation.                               *)

\* the step of w that inserts the entry of its initiation
Inserts(w) ==
    pc[w] = "insert" /\ Moved(w)

\* the entry that the insert of w has put under the sender index
Inserted(w) ==
    {e \in receivers' : e.key = SenderOf(buf[w])}

\* C17 as stated: the entry written expires at now + SESSION_VALID_TIME,
\* where now is the instant the sweep of the same initiation compared the
\* entries against, in both loops.
C17_ExpiryFromSweepTime ==
    [][\A w \in Workers :
          Inserts(w)
             => \A e \in Inserted(w) :
                   e.expires = now[w] + SESSION_VALID_TIME]_vars

\* C17, amended: the entry written expires at t + SESSION_VALID_TIME, where
\* t is the instant at which the entry is built, read from the clock after
\* the sweep; t is not earlier than the instant now the sweep compared
\* against, and in the multi-worker loop now is read before the wait for
\* exclusive access, so t - now includes that wait.
C17_ExpiryFromInsertTime ==
    [][\A w \in Workers :
          Inserts(w)
             => /\ Inserted(w) # {}
                /\ \A e \in Inserted(w) :
                      /\ e.socket = src_addr[w]
                      /\ e.expires = clock + SESSION_VALID_TIME
                      /\ e.expires >= now[w] + SESSION_VALID_TIME]_vars

\* in the multi-worker loop an initiation has just been inserted, and its
\* entry expires later than the sweep time plus the validity period
C17_Witness ==
    /\ thread_count = 2
    /\ \E w \in Workers :
          /\ pc[w] = "send_to"
          /\ PeerInitiation(w)
          /\ to_addr[w] = target_addr
          /\ now[w] < clock
          /\ \E e \in EntriesOf(SenderOf(buf[w])) :
                /\ e.socket = src_addr[w]
                /\ e.expires = clock + SESSION_VALID_TIME
                /\ e.expires > now[w] + SESSION_VALID_TIME

-----------------------------------------------------------------------------
\* C18: no entry of the table stores the target's address, and a datagram
\* received from the target is never sent to the target.
C18_TargetNeverStored ==
    /\ \A e \in receivers : e.socket # target_addr
    /\ \A w \in Workers :
          (pc[w] = "send_to" /\ FromTarget(w)) => to_addr[w] # target_addr
    /\ (last.kind = "send" /\ last.src = target_addr)
          => last.to # target_addr

\* the target has sent an initiation-shaped datagram for an index that has
\* an entry; the datagram was dropped and the entry is still a peer's
C18_Witness ==
    /\ last.kind = "drop"
    /\ last.src = target_addr
    /\ IsInitiation(last.payload)
    /\ EntriesOf(SenderOf(last.payload)) # {}
    /\ \A e \in EntriesOf(SenderOf(last.payload)) : e.socket \in Peers

-----------------------------------------------------------------------------
(* C19: no entry is evicted before its expiry.                             *)

\* the step of w that sweeps the table
Sweeps(w) ==
    pc[w] = "retain" /\ Moved(w)

\* C19: a sweep removes no entry whose expiry is later than the time at
\* which the sweep runs; an entry whose expiry has not passed leaves the
\* table only when an initiation of the same index overwrites it, and until
\* then a lookup of its index from the target finds it; the entry that a
\* re-initiation writes expires a full validity period after the insert,
\* not earlier than the entry it replaces.
C19_Step(w) ==
    /\ Sweeps(w)
          => \A e \in receivers : e.expires > clock => e \in receivers'
    /\ Inserts(w)
          => \A e \in Inserted(w), old \in EntriesOf(SenderOf(buf[w])) :
                /\ e.expires = clock' + SESSION_VALID_TIME
                /\ e.expires >= old.expires
    /\ (pc[w] = "get" /\ Moved(w))
          => \A e \in EntriesOf(ReceiverOf(buf[w])) :
                e.expires > clock => last' = HitOf(w, e)

C19_NoPrematureEviction ==
    [][/\ \A w \in Workers : C19_Step(w)
       /\ \A e \in receivers :
             (e.expires > clock /\ e \notin receivers')
                => \E w \in Workers :
                      Inserts(w) /\ SenderOf(buf[w]) = e.key
       /\ \A i \in Indices :
             (lastLive[i].some /\ lastLive[i].v > clock)
                => \E e \in EntriesOf(i) : e.expires = lastLive[i].v]_vars

\* a sweep ran half a validity period after an entry was written and kept
\* it: index 100 was inserted at time 0, and an initiation for index 258
\* has been inserted after a sweep at a later time
C19_Witness ==
    /\ clock > 0
    /\ \E e \in EntriesOf(100) : e.expires = SESSION_VALID_TIME
    /\ \E w \in Workers :
          /\ pc[w] = "send_to"
          /\ PeerInitiation(w)
          /\ SenderOf(buf[w]) = 258
          /\ now[w] > 0
          /\ \E e \in EntriesOf(258) : e.expires > SESSION_VALID_TIME

-----------------------------------------------------------------------------
(* C20: the lock is held only between its acquisition and the end of the   *)
(* table access.                                                           *)

\* w holds no guard of the lock
Unlocked(w) ==
    w \notin readers /\ w \notin writer

\* w is blocked in recv_from or send_to, or has ended
BlockedOrEnded(w) ==
    pc[w] \in {"recv_from", "send_to", "err", "panic", "off"}

\* a worker in recv_from or send_to, or one that has ended with an I/O
\* error or a panic, holds no guard
C20_Step(w) ==
    BlockedOrEnded(w)' => Unlocked(w)'

\* while every other worker is blocked or has ended, a worker that asks
\* for the lock can take it
C20_NotPrevented(w) ==
    (/\ Running
     /\ \A v \in Workers \ {w} : BlockedOrEnded(v))
        => /\ pc[w] = "read" => ENABLED threaded_read_lock(w)
           /\ pc[w] = "write" => ENABLED threaded_write_lock(w)

C20_Safety ==
    [][\A w \in Workers : C20_Step(w) /\ C20_NotPrevented(w)']_vars

\* w has called read() or write() and has not been given the guard
Waiting(w) ==
    pc[w] \in {"read", "write"}

\* while the process runs no worker waits for the lock for ever: the only
\* step that leaves read or write is the one that obtains the guard
C20_Liveness ==
    \A w \in Workers : []<>(~Waiting(w) \/ ~Running)

====
